---------------------------- MODULE Spec2Model ----------------------------
(***************************************************************************)
(* A model of dynamics/pendulum.py: the analytical pendulum model          *)
(* (pendulum_dynamics, pendulum_cost) wired into one Keras Model, the goal *)
(* generator and checker, and the two harnesses that compare the model     *)
(* with the gym Pendulum-v0 simulator (compare_to_gym and                  *)
(* compare_to_gym_batched).                                                *)
(*                                                                         *)
(* Numbers.  The program computes in IEEE floating point.  The model uses  *)
(* binary fixed point: a value v stands for v / Scale.  Every float        *)
(* multiplication rounds, and so does FMul.  Squared errors, which numpy   *)
(* computes in double precision, are kept exactly, in units of             *)
(* 1 / Scale^2.  Arrays are sequences and the source's 0-based index i is  *)
(* the model's index i + 1.                                                *)
(***************************************************************************)
EXTENDS Integers, Sequences, FiniteSets, TLC

VARIABLES
    (* one evaluation of the Keras model, as in Pendulum.__init__ *)
    x_data, u_data,        \* the batch handed to model.predict
    x_alt, u_alt,          \* a second batch, handed to a second predict
    k_out, k_alt,          \* what the two predicts returned (<<>>: not yet)
    normalized_th,         \* pendulum_cost's local of that name (row 0)
    (* pendulum_goal_generator / pendulum_goal_checker *)
    goal_x,                \* the matrix handed to the checker
    goal_path,             \* "none", "debugger", "verdict", "IndexError"
    goal_verdict,          \* the value returned on the "verdict" path
    (* the harness *)
    fn,                    \* the running function
    batch_size, time_steps,
    pc,                    \* the position in it
    tidx,
    env_state,             \* env.state, the simulator's own state
    x_t, u_t,
    us,                    \* the pre-sampled controls of the batched mode
    xs00,                  \* xs[0, 0] of the batched mode
    env_loss_t,
    k_res,                 \* <<k_x_t1, k_loss_t>> of the current step
    total_state_diff, total_loss_diff,
    (* the seeded random sources: what they have produced, and how far the *)
    (* current run has read them                                           *)
    seed_resets, seed_us, reset_pos, sample_pos,
    run,                   \* 1: first run, 2: the run after re-seeding
    first,                 \* the first run's outcome, kept at re-seeding
    (* history: what the run has done so far *)
    n_env_steps, n_predicts,
    flags_state, flags_loss,
    env_in,                \* <<state, control>> of the last env.step
    k_in,                  \* <<state, control>> of the last predict
    diffs,                 \* per step: <<state_diff, loss_diff>>
    applied                \* per step: <<simulator state, control>>

model_vars == <<x_data, u_data, x_alt, u_alt, k_out, k_alt, normalized_th>>
goal_vars == <<goal_x, goal_path, goal_verdict>>
seed_vars == <<seed_resets, seed_us, reset_pos, sample_pos>>
hist_vars == <<n_env_steps, n_predicts, flags_state, flags_loss, env_in, k_in,
               diffs, applied>>
harness_vars == <<fn, batch_size, time_steps, pc, tidx, env_state, x_t, u_t,
                  us, xs00, env_loss_t, k_res, total_state_diff,
                  total_loss_diff, run, first>>
vars == <<model_vars, goal_vars, seed_vars, hist_vars, harness_vars>>

---------------------------------------------------------------------------
(* Fixed point.                                                            *)

\* The resolution: 2^12 steps per unit.
Scale == 4096

\* A float literal num/den.
Lit(num, den) == (num * Scale) \div den

\* A float product, rounded (down) to the resolution.
FMul(a, b) == (a * b) \div Scale

\* np.pi
pi == Lit(355, 113)

\* np.finfo('float32').eps = 2^-23, in the squared-error unit 1 / Scale^2.
eps == (Scale * Scale) \div 8388608

\* np.finfo('float32').eps in the value unit 1 / Scale.
eps_value == Scale \div 8388608

\* The sine of y for 0 <= y <= pi (Bhaskara's rational approximation,
\* rounded to nearest).
SinHalfTurn(y) ==
    LET p == FMul(y, pi - y)
        den == 5 * FMul(pi, pi) - 4 * p
    IN  (16 * p * Scale + den \div 2) \div den

\* KK.sin / np.sin
KSin(a) ==
    LET r == a % (2 * pi)
    IN  IF r <= pi THEN SinHalfTurn(r) ELSE -SinHalfTurn(r - pi)

\* np.cos
KCos(a) == KSin(a + pi \div 2)

\* The remainder with the sign of the dividend (C's fmod).
KMod_truncating(a, b) == IF a >= 0 THEN a % b ELSE -((-a) % b)

\* KK.mod: the remainder of the flooring division, in [0, b) for b > 0.
KMod(a, b) == a % b

---------------------------------------------------------------------------
(* pendulum_dynamics and pendulum_cost.  x_combined is the batch the       *)
(* Concatenate layer builds: one row <<th, thdot, u>> per sample.          *)

g == 10
l == 1
m == 1
deltaT == Lit(5, 100)

\* Concatenate()([x_in, u_in])
Concatenate(x_in, u_in) == [i \in 1..Len(x_in) |-> x_in[i] \o u_in[i]]

\* x_combined[:, :2]
StateColumns(x_combined) ==
    [i \in 1..Len(x_combined) |-> SubSeq(x_combined[i], 1, 2)]

\* x_combined[:, 2:], a column
ControlColumn(x_combined) ==
    [i \in 1..Len(x_combined) |-> x_combined[i][3]]

\* The explicit Euler step: the new angle from the old velocity.
pendulum_dynamics_old_velocity(x_combined) ==
    LET x == StateColumns(x_combined)
        u == ControlColumn(x_combined)
        th == x[1][1]
        thdot == x[1][2]
        newthdot == [i \in 1..Len(u) |->
            thdot + FMul(((-3 * g) \div (2 * l)) * KSin(th + pi)
                         + (3 \div (m * l * l)) * u[i], deltaT)]
        newth == [i \in 1..Len(u) |-> th + FMul(thdot, deltaT)]
    IN  [i \in 1..Len(u) |-> <<newth[i], newthdot[i]>>]

pendulum_dynamics(x_combined) ==
    LET x == StateColumns(x_combined)
        u == ControlColumn(x_combined)
        th == x[1][1]
        thdot == x[1][2]
        newthdot == [i \in 1..Len(u) |->
            thdot + FMul(((-3 * g) \div (2 * l)) * KSin(th + pi)
                         + (3 \div (m * l * l)) * u[i], deltaT)]
        newth == [i \in 1..Len(u) |-> th + FMul(newthdot[i], deltaT)]
        new_x == [i \in 1..Len(u) |-> <<newth[i], newthdot[i]>>]
    IN  new_x

\* normalized_th of pendulum_cost
NormalizedTh(th) == KMod(th + pi, 2 * pi) - pi

\* The cost with the control term subtracted.
pendulum_cost_minus_control(x_combined) ==
    LET x == StateColumns(x_combined)
        u == ControlColumn(x_combined)
        th == x[1][1]
        thdot == x[1][2]
        nth == NormalizedTh(th)
    IN  [i \in 1..Len(u) |->
            FMul(nth, nth)
            + FMul(Lit(1, 10), FMul(thdot, thdot))
            - FMul(Lit(1, 1000), FMul(u[i], u[i]))]

pendulum_cost(x_combined) ==
    LET x == StateColumns(x_combined)
        u == ControlColumn(x_combined)
        th == x[1][1]
        thdot == x[1][2]
        nth == NormalizedTh(th)
    IN  [i \in 1..Len(u) |->
            FMul(nth, nth)
            + FMul(Lit(1, 10), FMul(thdot, thdot))
            + FMul(Lit(1, 1000), FMul(u[i], u[i]))]

\* self.mdl.predict([x_in, u_in]): the two Lambda outputs.
mdl_predict(x_in, u_in) ==
    LET combined_inputs == Concatenate(x_in, u_in)
    IN  <<pendulum_dynamics(combined_inputs), pendulum_cost(combined_inputs)>>

---------------------------------------------------------------------------
(* The inputs the checks draw from.                                        *)

\* The largest batch handed to the model, and the longest run.
MaxBatch == 2
MaxT == 2

ThVals == {-3 * pi, -pi - 1, -pi, -pi + 1, -1, 0, 1, pi \div 2, pi - 1, pi,
           pi + 1, 2 * pi, 3 * pi}
ThdotVals == {-Scale, -1, 0, 1, 150, Scale}
UVals == {-2 * Scale, -1, 0, 1, 32, 2 * Scale}

\* The rows of the batches of the batch check.
BatchStates == {<<0, 0>>, <<pi \div 2, 0>>, <<pi, Scale>>, <<-1, -Scale>>}
BatchControls == {<<0>>, <<Scale>>, <<-2 * Scale>>}

\* The sequences of length n over S.
Tuples(S, n) == [1..n -> S]

---------------------------------------------------------------------------
(* The state before anything runs.                                         *)

ModelIdle ==
    /\ x_data = <<>> /\ u_data = <<>> /\ x_alt = <<>> /\ u_alt = <<>>
    /\ k_out = <<>> /\ k_alt = <<>> /\ normalized_th = 0

GoalIdle == goal_x = <<>> /\ goal_path = "none" /\ goal_verdict = FALSE

HarnessIdle ==
    /\ fn = "none" /\ batch_size = 0 /\ time_steps = 0 /\ pc = "idle"
    /\ tidx = 0 /\ env_state = <<>> /\ x_t = <<>> /\ u_t = <<>>
    /\ us = <<>> /\ xs00 = <<>> /\ env_loss_t = 0 /\ k_res = <<>>
    /\ total_state_diff = 0 /\ total_loss_diff = 0
    /\ seed_resets = <<>> /\ seed_us = <<>> /\ reset_pos = 0 /\ sample_pos = 0
    /\ run = 1 /\ first = <<>>
    /\ n_env_steps = 0 /\ n_predicts = 0 /\ flags_state = 0 /\ flags_loss = 0
    /\ env_in = <<>> /\ k_in = <<>> /\ diffs = <<>> /\ applied = <<>>

---------------------------------------------------------------------------
(* One evaluation of the model: model.predict([x_data, u_data]).           *)

Predict ==
    /\ x_data # <<>> /\ k_out = <<>>
    /\ k_out' = mdl_predict(x_data, u_data)
    /\ normalized_th' = NormalizedTh(x_data[1][1])
    /\ UNCHANGED <<x_data, u_data, x_alt, u_alt, k_alt>>
    /\ UNCHANGED <<goal_vars, seed_vars, hist_vars, harness_vars>>

PredictAlt ==
    /\ x_alt # <<>> /\ k_alt = <<>>
    /\ k_alt' = mdl_predict(x_alt, u_alt)
    /\ UNCHANGED <<x_data, u_data, x_alt, u_alt, k_out, normalized_th>>
    /\ UNCHANGED <<goal_vars, seed_vars, hist_vars, harness_vars>>

\* A single instance: a state of shape (1, 2) and a control of shape (1, 1).
InitFn ==
    /\ \E th \in ThVals, thdot \in ThdotVals, u \in UVals :
           x_data = << <<th, thdot>> >> /\ u_data = << <<u>> >>
    /\ x_alt = <<>> /\ u_alt = <<>> /\ k_out = <<>> /\ k_alt = <<>>
    /\ normalized_th = 0
    /\ GoalIdle /\ HarnessIdle

NextFn == Predict

SpecFn == InitFn /\ [][NextFn]_vars

\* Two batches of the same size that differ in at most one row.
InitBatch ==
    /\ \E n \in 1..MaxBatch :
         \E xa \in Tuples(BatchStates, n), ua \in Tuples(BatchControls, n) :
           \E j \in 1..n, xj \in BatchStates, uj \in BatchControls :
               /\ x_data = xa /\ u_data = ua
               /\ x_alt = [xa EXCEPT ![j] = xj]
               /\ u_alt = [ua EXCEPT ![j] = uj]
    /\ k_out = <<>> /\ k_alt = <<>> /\ normalized_th = 0
    /\ GoalIdle /\ HarnessIdle

NextBatch == Predict \/ PredictAlt

SpecBatch == InitBatch /\ [][NextBatch]_vars

---------------------------------------------------------------------------
(* C1: for a single state (th, thdot) and control u the model returns      *)
(* (th', thdot') with thdot' = thdot + (-(3g)/(2l) sin(th + pi)            *)
(* + 3/(m l^2) u) dt and th' = th + thdot' dt, for g = 10, l = 1, m = 1,   *)
(* dt = 0.05: the angle moves by the updated velocity, and the pair is     *)
(* ordered (angle, velocity).                                              *)
C1_SemiImplicitStep ==
    (k_out # <<>> /\ Len(x_data) = 1) =>
        LET th == x_data[1][1]
            thdot == x_data[1][2]
            u == u_data[1][1]
            vel == thdot + FMul(-15 * KSin(th + pi) + 3 * u, Lit(1, 20))
            ang == th + FMul(vel, Lit(1, 20))
        IN  k_out[1] = << <<ang, vel>> >>

\* A step whose velocity changed, so that the old and the updated velocity
\* move the angle differently.
C1_Witness ==
    /\ k_out # <<>> /\ Len(x_data) = 1
    /\ FMul(k_out[1][1][2], deltaT) # FMul(x_data[1][2], deltaT)
    /\ k_out[1][1][1] # k_out[1][1][2]

(* C2: the rows of a batch are independent: a row that is the same in two  *)
(* batches (state and control) has the same next state and the same cost   *)
(* in both, whatever the other rows are.                                   *)
C2_RowsIndependent ==
    (k_out # <<>> /\ k_alt # <<>>) =>
        \A i \in 1..Len(x_data) :
            (x_data[i] = x_alt[i] /\ u_data[i] = u_alt[i]) =>
                (k_out[1][i] = k_alt[1][i] /\ k_out[2][i] = k_alt[2][i])

(* C6 as stated: the normalized angle is strictly greater than -pi and at  *)
(* most pi.                                                                *)
C6_HalfOpenAbove ==
    k_out # <<>> => (normalized_th > -pi /\ normalized_th <= pi)

(* C6, amended: the normalized angle is at least -pi and at most pi, also *)
(* for negative angles; the angles pi and -pi are normalized to -pi.       *)
C6_ClosedInterval ==
    k_out # <<>> =>
        /\ normalized_th >= -pi /\ normalized_th <= pi
        /\ (x_data[1][1] \in {pi, -pi} => normalized_th = -pi)

\* A negative angle, an odd multiple of pi, normalized to -pi.
C6_Witness ==
    /\ k_out # <<>> /\ x_data[1][1] = -pi /\ normalized_th = -pi

(* C9 as stated: the cost is at least 0, and it is 0 only when the         *)
(* normalized angle, the velocity and the control are all 0.               *)
C9_ZeroOnlyAtOrigin ==
    (k_out # <<>> /\ Len(x_data) = 1) =>
        /\ k_out[2][1] >= 0
        /\ (k_out[2][1] = 0 =>
                (normalized_th = 0 /\ x_data[1][2] = 0 /\ u_data[1][1] = 0))

(* C9, amended: the cost is at least 0; it is 0 when the normalized angle, *)
(* the velocity and the control are all 0, and it is 0 only when each of   *)
(* its three terms rounds to 0.                                            *)
C9_NonNegative ==
    (k_out # <<>> /\ Len(x_data) = 1) =>
        /\ k_out[2][1] >= 0
        /\ ((normalized_th = 0 /\ x_data[1][2] = 0 /\ u_data[1][1] = 0)
                => k_out[2][1] = 0)
        /\ (k_out[2][1] = 0 =>
                /\ FMul(normalized_th, normalized_th) = 0
                /\ FMul(Lit(1, 10), FMul(x_data[1][2], x_data[1][2])) = 0
                /\ FMul(Lit(1, 1000), FMul(u_data[1][1], u_data[1][1])) = 0)

\* A cost of 0 at the origin, and a positive cost.
C9_Witness ==
    /\ k_out # <<>> /\ Len(x_data) = 1
    /\ k_out[2][1] > 0 /\ u_data[1][1] # 0 /\ x_data[1][2] = 0
    /\ normalized_th = 0

---------------------------------------------------------------------------
(* pendulum_goal_generator and pendulum_goal_checker.  goal_path is        *)
(* "unset" before a matrix is there, "ready" when one is, and then how the *)
(* checker left: "debugger" (ipdb.set_trace()), "verdict" (it returned) or *)
(* "IndexError" (x[0, 0] or x[0, 1] is outside the matrix).                *)

\* The most rows of a matrix handed to the checker.
MaxRows == 3

GoalEntries == {0, pi, 2 * pi}

\* The matrices of r rows and c columns.
Matrices(r, c) == Tuples(Tuples(GoalEntries, c), r)

\* The breakpoint on fewer than two rows.
GoalCheckerPath_fewer_rows(x) ==
    IF Len(x) < 2 THEN "debugger"
    ELSE IF Len(x[1]) < 1 THEN "IndexError"
    ELSE IF Scale - KCos(x[1][1]) > eps_value THEN "verdict"
    ELSE IF Len(x[1]) < 2 THEN "IndexError"
    ELSE "verdict"

\* How pendulum_goal_checker(x) leaves.  `and` evaluates x[0, 1] only when
\* its left operand is true.
GoalCheckerPath(x) ==
    IF Len(x) = 2 THEN "debugger"
    ELSE IF Len(x) < 1 \/ Len(x[1]) < 1 THEN "IndexError"
    ELSE IF Scale - KCos(x[1][1]) > eps_value THEN "verdict"
    ELSE IF Len(x[1]) < 2 THEN "IndexError"
    ELSE "verdict"

\* What pendulum_goal_checker(x) returns when it returns.
GoalCheckerValue(x) ==
    Scale - KCos(x[1][1]) <= eps_value /\ x[1][2] = 0

pendulum_goal_generator ==
    /\ goal_path = "unset"
    /\ \E k \in -3..3 : goal_x' = << <<2 * pi * k, 0>> >>
    /\ goal_path' = "ready"
    /\ UNCHANGED goal_verdict
    /\ UNCHANGED <<model_vars, seed_vars, hist_vars, harness_vars>>

pendulum_goal_checker ==
    /\ goal_path = "ready"
    /\ goal_path' = GoalCheckerPath(goal_x)
    /\ goal_verdict' = IF goal_path' = "verdict"
                       THEN GoalCheckerValue(goal_x) ELSE FALSE
    /\ UNCHANGED goal_x
    /\ UNCHANGED <<model_vars, seed_vars, hist_vars, harness_vars>>

InitGoal ==
    /\ \/ goal_path = "unset" /\ goal_x = <<>>
       \/ /\ goal_path = "ready"
          /\ \E r \in 0..MaxRows, c \in 1..2 : goal_x \in Matrices(r, c)
    /\ goal_verdict = FALSE
    /\ ModelIdle /\ HarnessIdle

NextGoal == pendulum_goal_generator \/ pendulum_goal_checker

SpecGoal == InitGoal /\ [][NextGoal]_vars

GoalChecked == goal_path \in {"debugger", "verdict", "IndexError"}

\* The shape pendulum_goal_generator produces: one row of two columns.
WellFormed(x) == Len(x) = 1 /\ Len(x[1]) = 2

(* C7 as stated: a state of fewer than 2 rows gets no verdict from the     *)
(* checker but takes its error path, and a well-formed state never does.   *)
C7_FewerThanTwoRowsRejected ==
    GoalChecked =>
        /\ (Len(goal_x) < 2 => goal_path # "verdict")
        /\ (WellFormed(goal_x) => goal_path = "verdict")

(* C7, amended: the checker stops at its breakpoint exactly when the state *)
(* has 2 rows; a well-formed state, one row of two columns, never does and *)
(* gets its verdict.                                                       *)
C7_TwoRowsBreak ==
    GoalChecked =>
        /\ (Len(goal_x) = 2 <=> goal_path = "debugger")
        /\ (WellFormed(goal_x) => goal_path = "verdict")

\* A matrix of two rows stopped at the breakpoint.
C7_Witness == goal_path = "debugger" /\ Len(goal_x) = 2

---------------------------------------------------------------------------
(* The reference simulator, gym's Pendulum-v0.  It is not part of the      *)
(* repository: the harness uses env.reset(), env.state, env.step(u) and    *)
(* env.action_space.sample().  It integrates the same equations in double  *)
(* precision, so its results differ from the model's by rounding: the      *)
(* simulator's products round to nearest where the model's round down.     *)

\* A product in the simulator's arithmetic.
RMul(a, b) == (a * b + Scale \div 2) \div Scale

\* env.step(u) from state s: <<the next state, the reward>>.
env_step(s, u) ==
    LET th == s[1]
        thdot == s[2]
        nth == ((th + pi) % (2 * pi)) - pi
        costs == RMul(nth, nth) + RMul(Lit(1, 10), RMul(thdot, thdot))
                 + RMul(Lit(1, 1000), RMul(u, u))
        newthdot == thdot + RMul(-15 * KSin(th + pi) + 3 * u, Lit(1, 20))
        newth == th + RMul(newthdot, Lit(1, 20))
    IN  << <<newth, newthdot>>, -costs >>

\* The states env.reset() may draw, and the controls
\* env.action_space.sample() may draw.
ResetStates == {<<pi \div 2, 0>>, <<-1, Scale>>}
SampleControls == {<<Scale>>, <<-2 * Scale + 1>>}

\* What the seeded source gives next: what it gave at this position before,
\* or, past that, any value.
ResetChoices ==
    IF reset_pos < Len(seed_resets) THEN {seed_resets[reset_pos + 1]}
    ELSE ResetStates

SampleChoices ==
    IF sample_pos < Len(seed_us) THEN {seed_us[sample_pos + 1]}
    ELSE SampleControls

Logged(log, pos, v) == IF pos < Len(log) THEN log ELSE Append(log, v)

\* env.reset() giving r
EnvReset(r) ==
    /\ r \in ResetChoices
    /\ env_state' = r
    /\ seed_resets' = Logged(seed_resets, reset_pos, r)
    /\ reset_pos' = reset_pos + 1

\* env.action_space.sample() giving u
ActionSample(u) ==
    /\ u \in SampleChoices
    /\ seed_us' = Logged(seed_us, sample_pos, u)
    /\ sample_pos' = sample_pos + 1

---------------------------------------------------------------------------
(* The harness.  pc: "idle", then in the batched mode "presample", then    *)
(* "loop" (the head of the for loop), "step", "predict", "compare" (the    *)
(* three parts of its body), and "done" or "raised".                       *)

\* for tidx in np.arange(time_steps)
LoopRuns_once_more(i, n) == i <= n

LoopRuns(i, n) == i < n

\* if diff >= np.finfo('float32').eps
Flagged(diff) == diff >= eps

\* The total without the test.
Accumulate_always(total, diff) == total + diff

\* if diff >= eps: ...; total += diff
Accumulate(total, diff) == IF Flagged(diff) THEN total + diff ELSE total

\* The model's prediction kept for the next step.
NextX_fed_back(env_x_t1, k_x_t1) == k_x_t1

\* x_t = env_x_t1
NextX(env_x_t1, k_x_t1) == env_x_t1

\* np.sum(np.square(np.squeeze(a) - np.squeeze(b))), exact
SumSquare(a, b) == (a[1] - b[1]) * (a[1] - b[1]) + (a[2] - b[2]) * (a[2] - b[2])

NoHistory ==
    /\ n_env_steps' = 0 /\ n_predicts' = 0 /\ flags_state' = 0
    /\ flags_loss' = 0 /\ env_in' = <<>> /\ k_in' = <<>> /\ diffs' = <<>>
    /\ applied' = <<>>

\* compare_to_gym(time_steps=T), up to its loop
compare_to_gym(T) ==
    /\ pc = "idle"
    /\ fn' = "compare_to_gym" /\ time_steps' = T /\ batch_size' = 0
    /\ \E r \in ResetChoices : EnvReset(r) /\ x_t' = r
    /\ total_state_diff' = 0 /\ total_loss_diff' = 0
    /\ tidx' = 0 /\ pc' = "loop"
    /\ NoHistory
    /\ UNCHANGED <<u_t, us, xs00, env_loss_t, k_res, run, first>>
    /\ UNCHANGED <<seed_us, sample_pos>>
    /\ UNCHANGED <<model_vars, goal_vars>>

\* compare_to_gym_batched(batch_size=B, time_steps=T), up to its first loop
compare_to_gym_batched(B, T) ==
    /\ pc = "idle"
    /\ fn' = "compare_to_gym_batched" /\ time_steps' = T /\ batch_size' = B
    /\ \E r \in ResetChoices : EnvReset(r) /\ x_t' = r
    /\ us' = [i \in 1..(B * T) |-> 0]
    /\ tidx' = 0 /\ pc' = "presample"
    /\ NoHistory
    /\ UNCHANGED <<u_t, xs00, env_loss_t, k_res, total_state_diff,
                   total_loss_diff, run, first>>
    /\ UNCHANGED <<seed_us, sample_pos>>
    /\ UNCHANGED <<model_vars, goal_vars>>

\* us[tidx] = env.action_space.sample()
PreSample ==
    /\ pc = "presample" /\ tidx < batch_size * time_steps
    /\ \E u \in SampleChoices :
           ActionSample(u) /\ us' = [us EXCEPT ![tidx + 1] = u[1]]
    /\ tidx' = tidx + 1
    /\ UNCHANGED <<fn, batch_size, time_steps, pc, env_state, x_t, u_t, xs00,
                   env_loss_t, k_res, total_state_diff, total_loss_diff, run,
                   first>>
    /\ UNCHANGED <<seed_resets, reset_pos>>
    /\ UNCHANGED <<model_vars, goal_vars, hist_vars>>

\* us.reshape(batch_size, time_steps)
Reshape(flat, B, T) == [b \in 1..B |-> [t \in 1..T |-> flat[(b - 1) * T + t]]]

\* obs[0, 0] = o_t on an array of shape (batch_size, 0, 3)
StoreRaises ==
    /\ pc = "presample" /\ tidx = batch_size * time_steps
    /\ time_steps = 0
    /\ us' = Reshape(us, batch_size, time_steps)
    /\ pc' = "raised"
    /\ UNCHANGED <<fn, batch_size, time_steps, tidx, env_state, x_t, u_t,
                   xs00, env_loss_t, k_res, total_state_diff, total_loss_diff,
                   run, first>>
    /\ UNCHANGED <<model_vars, goal_vars, seed_vars, hist_vars>>

\* The reshape, the stores into obs and xs, the second env.reset()
SecondReset ==
    /\ pc = "presample" /\ tidx = batch_size * time_steps
    /\ time_steps > 0
    /\ us' = Reshape(us, batch_size, time_steps)
    /\ xs00' = x_t
    /\ \E r \in ResetChoices : EnvReset(r) /\ x_t' = r
    /\ total_state_diff' = 0 /\ total_loss_diff' = 0
    /\ tidx' = 0 /\ pc' = "loop"
    /\ UNCHANGED <<fn, batch_size, time_steps, u_t, env_loss_t, k_res, run,
                   first>>
    /\ UNCHANGED <<seed_us, sample_pos>>
    /\ UNCHANGED <<model_vars, goal_vars, hist_vars>>

\* u_t = env.action_space.sample()
Sample ==
    /\ pc = "loop" /\ LoopRuns(tidx, time_steps)
    /\ \E u \in SampleChoices : ActionSample(u) /\ u_t' = u
    /\ pc' = "step"
    /\ UNCHANGED <<fn, batch_size, time_steps, tidx, env_state, x_t, us, xs00,
                   env_loss_t, k_res, total_state_diff, total_loss_diff, run,
                   first>>
    /\ UNCHANGED <<seed_resets, reset_pos>>
    /\ UNCHANGED <<model_vars, goal_vars, hist_vars>>

\* env_res = env.step(u_t)
EnvStep ==
    /\ pc = "step"
    /\ env_state' = env_step(env_state, u_t[1])[1]
    /\ env_loss_t' = env_step(env_state, u_t[1])[2]
    /\ n_env_steps' = n_env_steps + 1
    /\ env_in' = <<env_state, u_t>>
    /\ applied' = Append(applied, <<env_state, u_t>>)
    /\ pc' = "predict"
    /\ UNCHANGED <<fn, batch_size, time_steps, tidx, x_t, u_t, us, xs00,
                   k_res, total_state_diff, total_loss_diff, run, first>>
    /\ UNCHANGED <<n_predicts, flags_state, flags_loss, k_in, diffs>>
    /\ UNCHANGED <<model_vars, goal_vars, seed_vars>>

\* k_res = self.mdl.predict([x_t.T, np.expand_dims(u_t, axis=0)])
ModelPredict ==
    /\ pc = "predict"
    /\ k_res' = mdl_predict(<<x_t>>, <<u_t>>)
    /\ n_predicts' = n_predicts + 1
    /\ k_in' = <<x_t, u_t>>
    /\ pc' = "compare"
    /\ UNCHANGED <<fn, batch_size, time_steps, tidx, env_state, x_t, u_t, us,
                   xs00, env_loss_t, total_state_diff, total_loss_diff, run,
                   first>>
    /\ UNCHANGED <<n_env_steps, flags_state, flags_loss, env_in, diffs,
                   applied>>
    /\ UNCHANGED <<model_vars, goal_vars, seed_vars>>

\* The two differences, the two flags and totals, and the state kept for the
\* next step.
Compare ==
    /\ pc = "compare"
    /\ LET env_x_t1 == env_state
           k_x_t1 == k_res[1][1]
           k_loss_t == k_res[2][1]
           state_diff == SumSquare(env_x_t1, k_x_t1)
           loss_diff == (env_loss_t + k_loss_t) * (env_loss_t + k_loss_t)
       IN  /\ flags_state' = flags_state + (IF Flagged(state_diff) THEN 1 ELSE 0)
           /\ total_state_diff' = Accumulate(total_state_diff, state_diff)
           /\ flags_loss' = flags_loss + (IF Flagged(loss_diff) THEN 1 ELSE 0)
           /\ total_loss_diff' = Accumulate(total_loss_diff, loss_diff)
           /\ x_t' = NextX(env_x_t1, k_x_t1)
           /\ diffs' = Append(diffs, <<state_diff, loss_diff>>)
    /\ tidx' = tidx + 1
    /\ pc' = "loop"
    /\ UNCHANGED <<fn, batch_size, time_steps, env_state, u_t, us, xs00,
                   env_loss_t, k_res, run, first>>
    /\ UNCHANGED <<n_env_steps, n_predicts, env_in, k_in, applied>>
    /\ UNCHANGED <<model_vars, goal_vars, seed_vars>>

\* print("Total state diff: ", ...), print("Total loss diff: ", ...)
Finish ==
    /\ pc = "loop" /\ ~LoopRuns(tidx, time_steps)
    /\ pc' = "done"
    /\ UNCHANGED <<fn, batch_size, time_steps, tidx, env_state, x_t, u_t, us,
                   xs00, env_loss_t, k_res, total_state_diff, total_loss_diff,
                   run, first>>
    /\ UNCHANGED <<model_vars, goal_vars, seed_vars, hist_vars>>

Body == PreSample \/ StoreRaises \/ SecondReset \/ Sample \/ EnvStep
        \/ ModelPredict \/ Compare \/ Finish

Call_compare_to_gym == run = 1 /\ \E T \in 0..MaxT : compare_to_gym(T)

Call_compare_to_gym_batched ==
    run = 1 /\ \E B \in 1..MaxBatch, T \in 0..MaxT : compare_to_gym_batched(B, T)

Init == ModelIdle /\ GoalIdle /\ HarnessIdle

Next == Call_compare_to_gym \/ Call_compare_to_gym_batched \/ Body

Spec == Init /\ [][Next]_vars

---------------------------------------------------------------------------
(* Two runs on one seed: compare_to_gym(T), the random sources seeded      *)
(* again as they were, and compare_to_gym_batched(1, T).                   *)

\* The sources seeded again: both start over.
Reseed ==
    /\ pc = "done" /\ run = 1 /\ fn = "compare_to_gym"
    /\ first' = [state |-> total_state_diff, loss |-> total_loss_diff,
                 applied |-> applied]
    /\ reset_pos' = 0 /\ sample_pos' = 0
    /\ run' = 2 /\ pc' = "idle"
    /\ UNCHANGED <<fn, batch_size, time_steps, tidx, env_state, x_t, u_t, us,
                   xs00, env_loss_t, k_res, total_state_diff, total_loss_diff>>
    /\ UNCHANGED <<seed_resets, seed_us>>
    /\ UNCHANGED <<model_vars, goal_vars, hist_vars>>

Call_seeded_batched == run = 2 /\ compare_to_gym_batched(1, time_steps)

NextSeeded == Call_compare_to_gym \/ Reseed \/ Call_seeded_batched \/ Body

SpecSeeded == Init /\ [][NextSeeded]_vars

---------------------------------------------------------------------------
(* What a run did, from its history.                                       *)

RECURSIVE Total(_, _)
\* The sum of column k of the per-step differences.
Total(seq, k) ==
    IF seq = <<>> THEN 0 ELSE seq[1][k] + Total(Tail(seq), k)

RECURSIVE TotalAtLeastEps(_, _)
\* The same sum over the steps whose difference is at least eps.
TotalAtLeastEps(seq, k) ==
    IF seq = <<>> THEN 0
    ELSE (IF seq[1][k] >= eps THEN seq[1][k] ELSE 0)
         + TotalAtLeastEps(Tail(seq), k)

InLoop == pc \in {"loop", "step", "predict", "compare", "done"}

(* C3 as stated: at the end of compare_to_gym the cumulative state         *)
(* divergence is the sum of the squared state errors of all executed       *)
(* steps, and the cumulative cost divergence the sum of their squared      *)
(* reward + cost errors.                                                   *)
C3_TotalsOfAllSteps ==
    (fn = "compare_to_gym" /\ pc = "done") =>
        /\ Len(diffs) = time_steps
        /\ total_state_diff = Total(diffs, 1)
        /\ total_loss_diff = Total(diffs, 2)

(* C3, amended: each total is the sum, over the executed steps whose       *)
(* squared error of that kind is at least float32 epsilon, of that squared *)
(* error; the state errors make up the state total alone and the cost      *)
(* errors the cost total alone.                                            *)
C3_TotalsOfFlaggedSteps ==
    (fn = "compare_to_gym" /\ pc = "done") =>
        /\ Len(diffs) = time_steps
        /\ total_state_diff = TotalAtLeastEps(diffs, 1)
        /\ total_loss_diff = TotalAtLeastEps(diffs, 2)

\* A finished run with a step whose two errors are above 0 and under
\* epsilon, and a step whose two errors are at least epsilon.
C3_Witness ==
    /\ fn = "compare_to_gym" /\ pc = "done"
    /\ \E i \in 1..Len(diffs) :
           /\ diffs[i][1] > 0 /\ diffs[i][1] < eps
           /\ diffs[i][2] > 0 /\ diffs[i][2] < eps
    /\ \E i \in 1..Len(diffs) : diffs[i][1] >= eps /\ diffs[i][2] >= eps

(* C4: on one seed, compare_to_gym_batched(1, T) and compare_to_gym(T)     *)
(* apply the same controls to the same simulator states and end with the   *)
(* same two totals.                                                        *)
C4_SeededRunsAgree ==
    (run = 2 /\ pc = "done") =>
        /\ applied = first.applied
        /\ total_state_diff = first.state
        /\ total_loss_diff = first.loss

(* C5: compare_to_gym_batched(B, T) drives B trajectories of T steps: B*T  *)
(* simulator steps and model evaluations, step t of trajectory b under the *)
(* pre-sampled control us[b, t].                                           *)
C5_GridDrivesTheRun ==
    (fn = "compare_to_gym_batched" /\ pc = "done") =>
        /\ n_env_steps = batch_size * time_steps
        /\ n_predicts = batch_size * time_steps
        /\ Len(applied) = batch_size * time_steps
        /\ \A b \in 1..batch_size, t \in 1..time_steps :
               applied[(b - 1) * time_steps + t][2] = <<us[b][t]>>

(* C8: compare_to_gym(time_steps=0) steps the simulator and evaluates the  *)
(* model not once, raises no flag, and reports 0 and 0.                    *)
C8_NoStepsNoDivergence ==
    (fn = "compare_to_gym" /\ time_steps = 0 /\ InLoop) =>
        /\ pc \in {"loop", "done"}
        /\ n_env_steps = 0 /\ n_predicts = 0
        /\ flags_state = 0 /\ flags_loss = 0
        /\ total_state_diff = 0 /\ total_loss_diff = 0

\* The run of no steps, finished.
C8_Witness == fn = "compare_to_gym" /\ time_steps = 0 /\ pc = "done"

(* C10: in both modes the harness runs in lockstep with the simulator: at  *)
(* the head of every iteration x_t is the simulator's state; the simulator *)
(* steps first, under u_t; the model is then evaluated on the state before *)
(* that step and the same u_t; and x_t is the simulator's state again,     *)
(* never the model's prediction.                                           *)
C10_Lockstep ==
    /\ pc \in {"loop", "step"} => x_t = env_state
    /\ pc = "predict" =>
           (n_env_steps = n_predicts + 1 /\ env_in = <<x_t, u_t>>)
    /\ pc = "compare" =>
           (n_env_steps = n_predicts /\ k_in = env_in /\ k_in = <<x_t, u_t>>)

\* The head of a later iteration of the batched mode, after a step in which
\* the model's prediction differed from the simulator's state.
C10_Witness ==
    /\ fn = "compare_to_gym_batched" /\ pc = "loop" /\ tidx >= 1
    /\ k_res[1][1] # env_state /\ x_t = env_state

===========================================================================
